---- MODULE Spec2Model ----
(***************************************************************************)
(* Model of the chat relay of backend-chatbot: the Socket.IO handlers of   *)
(* src/sockets/chatSocket.js, the store operations of                      *)
(* src/services/chatService.js they call and the responder of              *)
(* src/services/chatGPTService.js.                                         *)
(*                                                                         *)
(* A handler that awaits is a task; every await is a step boundary: one    *)
(* action is the resolution of the awaited call together with the code     *)
(* that runs up to the next await.  Everything between two awaits runs     *)
(* atomically on the single JavaScript thread.                             *)
(***************************************************************************)
EXTENDS Integers, Sequences, FiniteSets, TLC

\* ---- constants of the program ----
maxLength == 500
DedupWindowMs == 5000
CleanupDelayMs == 30000
HistoryLimit == 6
UserPreviewLen == 50
AdminPreviewLen == 40
UserLabelLen == 8
MsPerMinute == 60000

FallbackText == "I'm sorry, I'm having trouble generating a response right now. An admin will assist you shortly."
PlaceholderKey == "your_openai_api_key_here"

\* ---- universes ----
SockSeq == <<"s1", "s2", "s3">>
Sock == {SockSeq[i] : i \in 1..Len(SockSeq)}
GenIds == <<"g1", "g2">>
Sids == {"k", "k_a"} \cup {GenIds[i] : i \in 1..Len(GenIds)}
NoSession == ""
TaskIds == 1..4

VARIABLES
  connected,          \* io.sockets.sockets: the live connections
  rooms,              \* socket.rooms, per connection
  adminSockets,
  activeSessions,     \* Map in insertion order: a sequence of views
  socketToSession,
  aiEnabledSessions,
  lastUserMessages,
  processingRequests,
  timers,             \* pending setTimeout callbacks of the finally block
  now,                \* Date.now()
  chatSessions,       \* table ChatSession: the sessionId column, by creation
  messages,           \* table Message, by creation
  nextGen,            \* number of identifiers generated so far
  apiKey,             \* process.env.OPENAI_API_KEY read by the constructor
  tasks,              \* handlers suspended at an await
  emitted,            \* what the last step sent: <<[to, event, data]>>
  accepted            \* log of the submissions that passed the checks

vars == <<connected, rooms, adminSockets, activeSessions, socketToSession,
          aiEnabledSessions, lastUserMessages, processingRequests, timers,
          now, chatSessions, messages, nextGen, apiKey, tasks, emitted,
          accepted>>

\* ---- strings ----
Min(a, b) == IF a < b THEN a ELSE b

\* String.prototype.substring(a, b) for 0 <= a <= b
Substring(s, a, b) == SubSeq(s, a + 1, Min(b, Len(s)))

IsSpace(c) == c \in {" ", "\t", "\n"}

RECURSIVE TrimStart(_)
TrimStart(s) ==
  IF Len(s) > 0 /\ IsSpace(SubSeq(s, 1, 1))
  THEN TrimStart(SubSeq(s, 2, Len(s)))
  ELSE s

RECURSIVE TrimEnd(_)
TrimEnd(s) ==
  IF Len(s) > 0 /\ IsSpace(SubSeq(s, Len(s), Len(s)))
  THEN TrimEnd(SubSeq(s, 1, Len(s) - 1))
  ELSE s

\* String.prototype.trim()
Trim(s) == TrimEnd(TrimStart(s))

RECURSIVE Repeat(_, _)
Repeat(c, n) ==
  IF n = 0 THEN ""
  ELSE LET half == Repeat(c, n \div 2) IN
       IF n % 2 = 0 THEN half \o half ELSE half \o half \o c

\* a normalisation that cuts without the marker
FinalContentNoMarker(content) ==
  LET trimmedContent == Trim(content) IN
  IF Len(trimmedContent) > maxLength
  THEN Substring(trimmedContent, 0, maxLength)
  ELSE trimmedContent

\* finalContent of the user_message handler
FinalContent(content) ==
  LET trimmedContent == Trim(content) IN
  IF Len(trimmedContent) > maxLength
  THEN Substring(trimmedContent, 0, maxLength) \o "..."
  ELSE trimmedContent

RequestKey(sessionId, finalContent) == sessionId \o "_" \o finalContent

UserPreview(finalContent) ==
  Substring(finalContent, 0, UserPreviewLen)
    \o (IF Len(finalContent) > UserPreviewLen THEN "..." ELSE "")

AdminPreview(content) ==
  "Admin: " \o Substring(content, 0, AdminPreviewLen)
    \o (IF Len(content) > AdminPreviewLen THEN "..." ELSE "")

UserLabel(sessionId) == "User-" \o Substring(sessionId, 0, UserLabelLen)

\* toLocaleTimeString with hour and minute only: the minute of the clock
ClockLabel(t) == t \div MsPerMinute

\* ---- registry ----
ViewIds == {activeSessions[i].sessionId : i \in 1..Len(activeSessions)}

\* a registry that never finds a view
HasViewNever(sessionId) == FALSE

\* activeSessions.has(sessionId)
HasView(sessionId) == sessionId \in ViewIds
ViewIndex(sessionId) ==
  CHOOSE i \in 1..Len(activeSessions) : activeSessions[i].sessionId = sessionId
ViewOf(sessionId) == activeSessions[ViewIndex(sessionId)]

\* a view that is entered as inactive
NewViewInactive(sessionId) ==
  [sessionId |-> sessionId, user |-> UserLabel(sessionId),
   lastMessage |-> "Session started", timestamp |-> ClockLabel(now),
   isActive |-> FALSE]

\* lines 154-160: the view init_session enters into the registry
NewView(sessionId) ==
  [sessionId |-> sessionId, user |-> UserLabel(sessionId),
   lastMessage |-> "Session started", timestamp |-> ClockLabel(now),
   isActive |-> TRUE]

\* ---- emission ----
Emission(to, event, data) == [to |-> to, event |-> event, data |-> data]

\* one emission to each connection of the set, in the order of SockSeq
EmitTo(recipients, event, data) ==
  LET Keep(c) == c \in recipients
      kept == SelectSeq(SockSeq, Keep)
  IN [i \in 1..Len(kept) |-> Emission(kept[i], event, data)]

FormattedMessage(id) ==
  [id |-> id, sessionId |-> messages'[id].chatSessionId,
   sender |-> messages'[id].sender, content |-> messages'[id].content,
   createdAt |-> messages'[id].createdAt]

\* a fan-out that reaches only the administrators of the room
RoomEmitAdminsOnly(sessionId, id) ==
  EmitTo({c \in Sock : c \in adminSockets /\ c \in connected /\ sessionId \in rooms[c]},
         "message", FormattedMessage(id))

\* io.to(sessionId).emit("message", ...)
RoomEmit(sessionId, id) ==
  EmitTo({c \in Sock : c \in connected /\ sessionId \in rooms[c]},
         "message", FormattedMessage(id))

\* a fan-out to the whole room
AdminsInRoomEmitWholeRoom(sessionId, id) ==
  EmitTo({c \in Sock : c \in connected /\ sessionId \in rooms[c]},
         "message", FormattedMessage(id))

\* a fan-out to every administrator, whatever the rooms it joined
AdminsInRoomEmitAnyRoom(sessionId, id) ==
  EmitTo({c \in Sock : c \in adminSockets /\ c \in connected},
         "message", FormattedMessage(id))

\* a fan-out that reaches nobody
AdminsInRoomEmitNothing(sessionId, id) == <<>>

\* adminSockets.forEach(... adminSocket.rooms.has(sessionId) ... emit("message"))
AdminsInRoomEmit(sessionId, id) ==
  EmitTo({c \in Sock : c \in adminSockets /\ c \in connected /\ sessionId \in rooms[c]},
         "message", FormattedMessage(id))

\* a broadcast that goes to every live connection
SessionsListEmitToAll(admins, live, list) ==
  EmitTo({c \in Sock : c \in live}, "sessions-list", list)

\* adminSockets.forEach(... emit("sessions-list", Array.from(activeSessions.values())))
SessionsListEmit(admins, live, list) ==
  EmitTo({c \in Sock : c \in admins /\ c \in live},
         "sessions-list", list)

\* ---- store ----
SessionExists(sessionId) ==
  \E i \in 1..Len(chatSessions) : chatSessions[i] = sessionId

\* a row of table Message; origin records which saveMessage call wrote it
MessageRow(sessionId, sender, content, isAI, origin) ==
  [chatSessionId |-> sessionId, sender |-> sender, content |-> content,
   isAI |-> isAI, createdAt |-> now, origin |-> origin]

\* ---- tasks ----
Idle == [kind |-> "idle", stage |-> "idle", pc |-> "idle", sock |-> "",
         sid |-> "", content |-> "", key |-> "", gen |-> "", reply |-> "",
         auto |-> FALSE, ai |-> FALSE, saved |-> <<>>, raw |-> "",
         history |-> <<>>]

FreeTask(t) == tasks[t].kind = "idle" /\ \A u \in TaskIds : u < t => tasks[u].kind # "idle"

Submission(kind, sessionId, content) ==
  [kind |-> kind, sid |-> sessionId, content |-> content, at |-> now]

InitWith(keys) ==
  /\ connected = {}
  /\ rooms = [c \in Sock |-> {}]
  /\ adminSockets = {}
  /\ activeSessions = <<>>
  /\ socketToSession = [c \in Sock |-> NoSession]
  /\ aiEnabledSessions = {}
  /\ lastUserMessages = [k \in Sids |-> [content |-> "", timestamp |-> -1]]
  /\ processingRequests = {}
  /\ timers = {}
  /\ now = 0
  /\ chatSessions = <<>>
  /\ messages = <<>>
  /\ nextGen = 0
  /\ apiKey \in keys
  /\ tasks = [t \in TaskIds |-> Idle]
  /\ emitted = <<>>
  /\ accepted = <<>>

Init == InitWith({"", PlaceholderKey, "sk-live"})

\* ---- synchronous handlers ----

\* io.on("connection"): chatSocket(io, socket) registers the handlers.  A
\* connection identifier of which no trace is left stands for a new connection.
Connect(s) ==
  /\ s \notin connected
  /\ rooms[s] = {} /\ socketToSession[s] = NoSession
  /\ \A t \in TaskIds : tasks[t].sock # s
  /\ connected' = connected \cup {s}
  /\ emitted' = <<>>
  /\ UNCHANGED <<rooms, adminSockets, activeSessions, socketToSession,
                 aiEnabledSessions, lastUserMessages, processingRequests,
                 timers, now, chatSessions, messages, nextGen, apiKey, tasks, accepted>>

AdminConnect(s) ==
  /\ s \in connected
  /\ adminSockets' = adminSockets \cup {s}
  /\ emitted' = <<Emission(s, "sessions-list", activeSessions)>>
  /\ UNCHANGED <<connected, rooms, activeSessions, socketToSession,
                 aiEnabledSessions, lastUserMessages, processingRequests,
                 timers, now, chatSessions, messages, nextGen, apiKey, tasks, accepted>>

GetSessions(s) ==
  /\ s \in connected
  /\ emitted' = <<Emission(s, "sessions-list", activeSessions)>>
  /\ UNCHANGED <<connected, rooms, adminSockets, activeSessions,
                 socketToSession, aiEnabledSessions, lastUserMessages,
                 processingRequests, timers, now, chatSessions, messages,
                 nextGen, apiKey, tasks, accepted>>

AdminJoinSession(s, sessionId) ==
  /\ s \in connected
  /\ rooms' = [rooms EXCEPT ![s] = @ \cup {sessionId}]
  /\ emitted' = <<>>
  /\ UNCHANGED <<connected, adminSockets, activeSessions, socketToSession,
                 aiEnabledSessions, lastUserMessages, processingRequests,
                 timers, now, chatSessions, messages, nextGen, apiKey, tasks, accepted>>

AdminLeaveSession(s, sessionId) ==
  /\ s \in connected
  /\ rooms' = [rooms EXCEPT ![s] = @ \ {sessionId}]
  /\ emitted' = <<>>
  /\ UNCHANGED <<connected, adminSockets, activeSessions, socketToSession,
                 aiEnabledSessions, lastUserMessages, processingRequests,
                 timers, now, chatSessions, messages, nextGen, apiKey, tasks, accepted>>

ToggleAiMode(s, sessionId, enabled) ==
  /\ s \in connected
  /\ aiEnabledSessions' = IF enabled THEN aiEnabledSessions \cup {sessionId}
                          ELSE aiEnabledSessions \ {sessionId}
  /\ emitted' = EmitTo({c \in Sock : c \in adminSockets /\ c \in connected},
            "ai-mode-changed",
                          [sessionId |-> sessionId, enabled |-> enabled])
  /\ UNCHANGED <<connected, rooms, adminSockets, activeSessions,
                 socketToSession, lastUserMessages, processingRequests,
                 timers, now, chatSessions, messages, nextGen, apiKey, tasks, accepted>>

\* a disconnect that always overwrites the preview
DisconnectPreviewOverwrites(lastMessage) == "User disconnected"

\* line 386: session.lastMessage || "User disconnected"
DisconnectPreview(lastMessage) ==
  IF lastMessage = "" THEN "User disconnected" ELSE lastMessage

\* a disconnect that drops the handlers of the connection that are suspended
DisconnectAborts(s) ==
  /\ s \in connected
  /\ connected' = connected \ {s}
  /\ rooms' = [rooms EXCEPT ![s] = {}]
  /\ adminSockets' = adminSockets \ {s}
  /\ tasks' = [t \in TaskIds |-> IF tasks[t].sock = s THEN Idle ELSE tasks[t]]
  /\ LET sessionId == socketToSession[s] IN
     IF sessionId # NoSession /\ HasView(sessionId)
     THEN /\ activeSessions' =
               [activeSessions EXCEPT ![ViewIndex(sessionId)] =
                  [@ EXCEPT !.isActive = FALSE,
                            !.lastMessage = DisconnectPreview(@),
                            !.timestamp = ClockLabel(now)]]
          /\ socketToSession' = [socketToSession EXCEPT ![s] = NoSession]
          /\ emitted' = SessionsListEmit(adminSockets', connected', activeSessions')
     ELSE /\ emitted' = <<>>
          /\ UNCHANGED <<activeSessions, socketToSession>>
  /\ UNCHANGED <<aiEnabledSessions, lastUserMessages, processingRequests,
                 timers, now, chatSessions, messages, nextGen, apiKey, accepted>>

\* socket.on("disconnect"); Socket.IO has emptied socket.rooms before it runs
Disconnect(s) ==
  /\ s \in connected
  /\ connected' = connected \ {s}
  /\ rooms' = [rooms EXCEPT ![s] = {}]
  /\ adminSockets' = adminSockets \ {s}
  /\ LET sessionId == socketToSession[s] IN
     IF sessionId # NoSession /\ HasView(sessionId)
     THEN /\ activeSessions' =
               [activeSessions EXCEPT ![ViewIndex(sessionId)] =
                  [@ EXCEPT !.isActive = FALSE,
                            !.lastMessage = DisconnectPreview(@),
                            !.timestamp = ClockLabel(now)]]
          /\ socketToSession' = [socketToSession EXCEPT ![s] = NoSession]
          /\ emitted' = SessionsListEmit(adminSockets', connected', activeSessions')
     ELSE /\ emitted' = <<>>
          /\ UNCHANGED <<activeSessions, socketToSession>>
  /\ UNCHANGED <<aiEnabledSessions, lastUserMessages, processingRequests,
                 timers, now, chatSessions, messages, nextGen, apiKey, tasks, accepted>>

\* ---- get-all-sessions ----

\* getAllSessions, chatService.js lines 77-84, for one row of ChatSession:
\* the preview is the content of the latest message of the conversation.
\* The timestamp and createdAt fields are left out.
StoredSummary(sessionId) ==
  LET own == SelectSeq(messages, LAMBDA m : m.chatSessionId = sessionId) IN
  [sessionId |-> sessionId, user |-> UserLabel(sessionId),
   lastMessage |-> IF Len(own) > 0 THEN own[Len(own)].content
                   ELSE "No messages yet",
   isActive |-> FALSE]

\* lines 41-55: a stored conversation that is in the registry is marked
\* active and takes the preview of the registry
MergedSession(session) ==
  IF HasView(session.sessionId)
  THEN [session EXCEPT
          !.isActive = TRUE,
          !.lastMessage = IF ViewOf(session.sessionId).lastMessage # ""
                          THEN ViewOf(session.sessionId).lastMessage ELSE @]
  ELSE session

\* lines 35-55: the stored conversations, newest first, each one merged
MergedSessions ==
  [i \in 1..Len(chatSessions) |->
     MergedSession(StoredSummary(chatSessions[Len(chatSessions) + 1 - i]))]

\* line 31: up to the await of getAllSessions
GetAllSessionsStart(t, s) ==
  /\ s \in connected
  /\ FreeTask(t)
  /\ tasks' = [tasks EXCEPT ![t] =
       [Idle EXCEPT !.kind = "list", !.stage = "list", !.pc = "find", !.sock = s]]
  /\ emitted' = <<>>
  /\ UNCHANGED <<connected, rooms, adminSockets, activeSessions,
                 socketToSession, aiEnabledSessions, lastUserMessages,
                 processingRequests, timers, now, chatSessions, messages,
                 nextGen, apiKey, accepted>>

\* lines 35-62: getAllSessions completes; the list, or an empty list when it
\* failed, goes to the requesting connection
GetAllSessionsDone(t, ok) ==
  /\ tasks[t].kind = "list" /\ tasks[t].pc = "find"
  /\ emitted' = IF tasks[t].sock \in connected
                THEN <<Emission(tasks[t].sock, "all-sessions-list",
                                IF ok THEN MergedSessions ELSE <<>>)>>
                ELSE <<>>
  /\ tasks' = [tasks EXCEPT ![t] = Idle]
  /\ UNCHANGED <<connected, rooms, adminSockets, activeSessions,
                 socketToSession, aiEnabledSessions, lastUserMessages,
                 processingRequests, timers, now, chatSessions, messages,
                 nextGen, apiKey, accepted>>

\* ---- time ----

\* the clock reaches the next instant of the schedule
Tick(instants) ==
  /\ \E t \in instants :
       /\ t > now
       /\ \A u \in instants : u > now => t <= u
       /\ now' = t
  /\ emitted' = <<>>
  /\ UNCHANGED <<connected, rooms, adminSockets, activeSessions,
                 socketToSession, aiEnabledSessions, lastUserMessages,
                 processingRequests, timers, chatSessions, messages, nextGen,
                 apiKey, tasks, accepted>>

\* the callback of setTimeout(..., 30000) in the finally block
CleanupTimer ==
  /\ \E tm \in timers :
       /\ now >= tm.due
       /\ timers' = timers \ {tm}
       /\ processingRequests' = processingRequests \ {tm.key}
  /\ emitted' = <<>>
  /\ UNCHANGED <<connected, rooms, adminSockets, activeSessions,
                 socketToSession, aiEnabledSessions, lastUserMessages, now,
                 chatSessions, messages, nextGen, apiKey, tasks, accepted>>

\* ---- init_session ----

\* the running init_session handlers that may still generate an identifier
MayGenerate ==
  {u \in TaskIds : tasks[u].kind = "init" /\ tasks[u].stage = "existing"
                     /\ tasks[u].pc = "find"}

\* lines 120-135: up to the first await (createChatSession or getSession)
InitSessionStart(t, s, sessionId) ==
  /\ s \in connected
  /\ FreeTask(t)
  /\ nextGen + Cardinality(MayGenerate) < Len(GenIds)
  /\ IF sessionId = NoSession
     THEN /\ nextGen' = nextGen + 1
          /\ tasks' = [tasks EXCEPT ![t] =
               [Idle EXCEPT !.kind = "init", !.stage = "new", !.pc = "create",
                            !.sock = s, !.sid = GenIds[nextGen + 1],
                            !.gen = GenIds[nextGen + 1]]]
     ELSE /\ tasks' = [tasks EXCEPT ![t] =
               [Idle EXCEPT !.kind = "init", !.stage = "existing", !.pc = "find",
                            !.sock = s, !.sid = sessionId]]
          /\ UNCHANGED nextGen
  /\ emitted' = <<>>
  /\ UNCHANGED <<connected, rooms, adminSockets, activeSessions,
                 socketToSession, aiEnabledSessions, lastUserMessages,
                 processingRequests, timers, now, chatSessions, messages, apiKey, accepted>>

\* lines 145-178: join, binding, registry, acknowledgment
InitSessionFinish(t) ==
  LET s == tasks[t].sock
      sessionId == tasks[t].sid
      ack == IF s \in connected
             THEN <<Emission(s, "ack", [sessionId |-> sessionId])>> ELSE <<>>
  IN
  /\ rooms' = [rooms EXCEPT ![s] = @ \cup {sessionId}]
  /\ socketToSession' = [socketToSession EXCEPT ![s] = sessionId]
  /\ IF ~HasView(sessionId)
     THEN /\ activeSessions' = Append(activeSessions, NewView(sessionId))
          /\ emitted' = SessionsListEmit(adminSockets, connected, activeSessions') \o ack
     ELSE /\ activeSessions' = [activeSessions EXCEPT
                                  ![ViewIndex(sessionId)].isActive = TRUE]
          /\ emitted' = ack
  /\ tasks' = [tasks EXCEPT ![t] = Idle]
  /\ UNCHANGED <<connected, adminSockets, aiEnabledSessions, lastUserMessages,
                 processingRequests, timers, now, messages, apiKey, accepted>>

\* createChatSession of line 124 completes; its failure is not caught
InitSessionCreated(t, ok) ==
  /\ tasks[t].kind = "init" /\ tasks[t].stage = "new" /\ tasks[t].pc = "create"
  /\ IF ok
     THEN /\ chatSessions' = Append(chatSessions, tasks[t].gen)
          /\ InitSessionFinish(t)
     ELSE /\ tasks' = [tasks EXCEPT ![t] = Idle]
          /\ emitted' = <<>>
          /\ UNCHANGED <<connected, rooms, adminSockets, activeSessions,
                         socketToSession, aiEnabledSessions, lastUserMessages,
                         processingRequests, timers, now, chatSessions,
                         messages, apiKey, accepted>>
  /\ UNCHANGED nextGen

\* getSession of line 135 completes
InitSessionFound(t, ok) ==
  /\ tasks[t].kind = "init" /\ tasks[t].stage = "existing" /\ tasks[t].pc = "find"
  /\ IF ok /\ ~SessionExists(tasks[t].sid)
     THEN \* createChatSession('unknown', 'unknown') generates its own identifier
          /\ nextGen' = nextGen + 1
          /\ tasks' = [tasks EXCEPT ![t].pc = "create",
                                    ![t].gen = GenIds[nextGen + 1]]
          /\ emitted' = <<>>
          /\ UNCHANGED <<connected, rooms, adminSockets, activeSessions,
                         socketToSession, aiEnabledSessions, lastUserMessages,
                         processingRequests, timers, now, chatSessions,
                         messages, apiKey, accepted>>
     ELSE /\ InitSessionFinish(t)
          /\ UNCHANGED <<nextGen, chatSessions>>

\* createChatSession of line 138 completes; its failure is caught at line 140
InitSessionRecreated(t, ok) ==
  /\ tasks[t].kind = "init" /\ tasks[t].stage = "existing" /\ tasks[t].pc = "create"
  /\ chatSessions' = IF ok THEN Append(chatSessions, tasks[t].gen) ELSE chatSessions
  /\ InitSessionFinish(t)
  /\ UNCHANGED nextGen

\* ---- user_message and admin_message ----

\* a validation that lets every content through
IsEmptyNever(content) == FALSE

\* lines 184-188: the content is missing or blank
IsEmpty(content) == content = "" \/ Len(Trim(content)) = 0

\* a duplicate check that never rejects
IsDuplicateNever(sessionId, finalContent) == FALSE

\* a duplicate check that compares the time only
IsDuplicateAnyContent(sessionId, finalContent) ==
  LET lastMessage == lastUserMessages[sessionId] IN
  /\ lastMessage.timestamp >= 0
  /\ now - lastMessage.timestamp < DedupWindowMs

\* lines 197-203: same content as the last accepted one, less than 5 s ago
IsDuplicate(sessionId, finalContent) ==
  LET lastMessage == lastUserMessages[sessionId] IN
  /\ lastMessage.timestamp >= 0
  /\ lastMessage.content = finalContent
  /\ now - lastMessage.timestamp < DedupWindowMs

\* lines 205-212: the same request key is being processed
InFlight(requestKey) == requestKey \in processingRequests

\* lines 181-225: validation, normalisation, duplicate check, in-flight guard,
\* up to the first await of saveMessage
UserMessageStart(t, s, sessionId, content) ==
  LET finalContent == FinalContent(content)
      requestKey == RequestKey(sessionId, finalContent)
      rejected ==
        \/ IsEmpty(content)
        \/ IsDuplicate(sessionId, finalContent)
        \/ InFlight(requestKey)
  IN
  /\ s \in connected
  /\ FreeTask(t)
  /\ emitted' = <<>>
  /\ IF rejected
     THEN UNCHANGED <<processingRequests, lastUserMessages, tasks, accepted>>
     ELSE /\ accepted' = Append(accepted, Submission("user", sessionId, finalContent))
          /\ processingRequests' = processingRequests \cup {requestKey}
          /\ lastUserMessages' = [lastUserMessages EXCEPT ![sessionId] =
               [content |-> finalContent, timestamp |-> now]]
          /\ tasks' = [tasks EXCEPT ![t] =
               [Idle EXCEPT !.kind = "user", !.stage = "user", !.pc = "find",
                            !.sock = s, !.sid = sessionId,
                            !.content = finalContent, !.key = requestKey,
                            !.auto = sessionId \in aiEnabledSessions,
                            !.raw = content]]
  /\ UNCHANGED <<connected, rooms, adminSockets, activeSessions,
                 socketToSession, aiEnabledSessions, timers, now,
                 chatSessions, messages, nextGen, apiKey>>

\* lines 333-337: up to the first await of saveMessage
AdminMessageStart(t, s, sessionId, content) ==
  /\ s \in connected
  /\ FreeTask(t)
  /\ tasks' = [tasks EXCEPT ![t] =
       [Idle EXCEPT !.kind = "admin", !.stage = "admin", !.pc = "find",
                    !.sock = s, !.sid = sessionId, !.content = content,
                    !.raw = content]]
  /\ accepted' = Append(accepted, Submission("admin", sessionId, content))
  /\ emitted' = <<>>
  /\ UNCHANGED <<connected, rooms, adminSockets, activeSessions,
                 socketToSession, aiEnabledSessions, lastUserMessages,
                 processingRequests, timers, now, chatSessions, messages,
                 nextGen, apiKey>>

\* a finally block that leaves the guard entry in place
FinallyKeepsGuard(t) ==
  /\ processingRequests' = processingRequests
  /\ timers' = timers \cup {[key |-> tasks[t].key, due |-> now + CleanupDelayMs]}
  /\ tasks' = [tasks EXCEPT ![t] = Idle]

\* lines 322-330: delete the guard entry and schedule the delayed delete
Finally(t) ==
  /\ processingRequests' = processingRequests \ {tasks[t].key}
  /\ timers' = timers \cup {[key |-> tasks[t].key, due |-> now + CleanupDelayMs]}
  /\ tasks' = [tasks EXCEPT ![t] = Idle]

\* a preview update that makes a view when the registry has none
UpdateSessionInfoCreates(sessionId, preview, before) ==
  /\ activeSessions' =
       IF HasView(sessionId)
       THEN [activeSessions EXCEPT ![ViewIndex(sessionId)] =
               [@ EXCEPT !.lastMessage = preview, !.timestamp = ClockLabel(now)]]
       ELSE Append(activeSessions,
                   [NewView(sessionId) EXCEPT !.lastMessage = preview])
  /\ emitted' = before \o SessionsListEmit(adminSockets, connected, activeSessions')

\* lines 306-319 and 352-365: preview, timestamp and sessions-list
UpdateSessionInfo(sessionId, preview, before) ==
  IF HasView(sessionId)
  THEN /\ activeSessions' = [activeSessions EXCEPT ![ViewIndex(sessionId)] =
            [@ EXCEPT !.lastMessage = preview, !.timestamp = ClockLabel(now)]]
       /\ emitted' = before \o SessionsListEmit(adminSockets, connected, activeSessions')
  ELSE /\ emitted' = before
       /\ UNCHANGED activeSessions

\* the sender, content and flag saveMessage is called with
SaveArgs(t) ==
  CASE tasks[t].stage = "user" ->
         [sender |-> "user", content |-> tasks[t].content, isAI |-> FALSE]
    [] tasks[t].stage = "reply" ->
         [sender |-> "admin", content |-> tasks[t].reply, isAI |-> FALSE]
    [] tasks[t].stage = "fallback" ->
         [sender |-> "admin", content |-> FallbackText, isAI |-> FALSE]
    [] tasks[t].stage = "admin" ->
         [sender |-> "admin", content |-> tasks[t].content, isAI |-> FALSE]

\* what follows a successful saveMessage; messages' holds the new row
AfterSave(t) ==
  LET sessionId == tasks[t].sid
      id == Len(messages')
  IN
  CASE tasks[t].stage = "user" ->
         \* lines 228-244, and 306-330 when AI mode is off
         IF sessionId \in aiEnabledSessions
         THEN /\ tasks' = [tasks EXCEPT ![t].stage = "history", ![t].pc = "history",
                                        ![t].ai = TRUE,
                                        ![t].saved = Append(@, id)]
              /\ emitted' = AdminsInRoomEmit(sessionId, id)
              /\ UNCHANGED <<activeSessions, processingRequests, timers>>
         ELSE /\ UpdateSessionInfo(sessionId, UserPreview(tasks[t].content),
                                   AdminsInRoomEmit(sessionId, id))
              /\ Finally(t)
    [] tasks[t].stage \in {"reply", "fallback"} ->
         \* lines 272-282 or 293-300, then 306-330
         /\ UpdateSessionInfo(sessionId, UserPreview(tasks[t].content),
                              RoomEmit(sessionId, id))
         /\ Finally(t)
    [] tasks[t].stage = "admin" ->
         \* lines 340-365
         /\ UpdateSessionInfo(sessionId, AdminPreview(tasks[t].content),
                              RoomEmit(sessionId, id))
         /\ tasks' = [tasks EXCEPT ![t] = Idle]
         /\ UNCHANGED <<processingRequests, timers>>

\* a catch that drops the request instead of saving the fallback
StartFallbackGivesUp(t) ==
  tasks' = [tasks EXCEPT ![t].stage = "done", ![t].pc = "done"]

\* lines 284-292: the catch of the AI branch starts saving the fallback
StartFallback(t) ==
  tasks' = [tasks EXCEPT ![t].stage = "fallback", ![t].pc = "find"]

\* what follows a saveMessage that throws
AfterSaveFailed(t) ==
  CASE tasks[t].stage = "reply" ->
         \* line 284: caught, the fallback is saved instead
         /\ StartFallback(t)
         /\ UNCHANGED <<processingRequests, timers>>
    [] tasks[t].stage \in {"user", "fallback"} ->
         \* line 320: caught, then the finally block
         Finally(t)
    [] tasks[t].stage = "admin" ->
         \* line 366
         /\ tasks' = [tasks EXCEPT ![t] = Idle]
         /\ UNCHANGED <<processingRequests, timers>>

Saving(t) == tasks[t].stage \in {"user", "reply", "fallback", "admin"}

\* saveMessage, lines 22-44 of chatService.js: findUnique completes; when the
\* session is found, message.create follows
SaveMessageFind(t, ok) ==
  /\ Saving(t) /\ tasks[t].pc = "find"
  /\ IF ~ok
     THEN /\ AfterSaveFailed(t)
          /\ emitted' = <<>>
          /\ UNCHANGED <<messages, activeSessions>>
     ELSE IF SessionExists(tasks[t].sid)
     THEN /\ messages' = Append(messages,
               MessageRow(tasks[t].sid, SaveArgs(t).sender, SaveArgs(t).content,
                          SaveArgs(t).isAI, tasks[t].stage))
          /\ AfterSave(t)
     ELSE /\ tasks' = [tasks EXCEPT ![t].pc = "create"]
          /\ emitted' = <<>>
          /\ UNCHANGED <<messages, activeSessions, processingRequests, timers>>
  /\ UNCHANGED <<connected, rooms, adminSockets, socketToSession,
                 aiEnabledSessions, lastUserMessages, now, chatSessions,
                 nextGen, apiKey, accepted>>

\* saveMessage, lines 28-34: chatSession.create completes; sessionId is unique
SaveMessageCreate(t, ok) ==
  /\ Saving(t) /\ tasks[t].pc = "create"
  /\ IF ok /\ ~SessionExists(tasks[t].sid)
     THEN /\ chatSessions' = Append(chatSessions, tasks[t].sid)
          /\ tasks' = [tasks EXCEPT ![t].pc = "insert"]
          /\ UNCHANGED <<processingRequests, timers>>
     ELSE /\ AfterSaveFailed(t)
          /\ UNCHANGED chatSessions
  /\ emitted' = <<>>
  /\ UNCHANGED <<connected, rooms, adminSockets, activeSessions,
                 socketToSession, aiEnabledSessions, lastUserMessages, now,
                 messages, nextGen, apiKey, accepted>>

\* an insert whose failure still refreshes the preview and broadcasts it
SaveMessageInsertLeaks(t, ok) ==
  /\ Saving(t) /\ tasks[t].pc = "insert"
  /\ IF ok
     THEN /\ messages' = Append(messages,
               MessageRow(tasks[t].sid, SaveArgs(t).sender, SaveArgs(t).content,
                          SaveArgs(t).isAI, tasks[t].stage))
          /\ AfterSave(t)
     ELSE /\ AfterSaveFailed(t)
          /\ UpdateSessionInfo(tasks[t].sid, UserPreview(tasks[t].content), <<>>)
          /\ UNCHANGED messages
  /\ UNCHANGED <<connected, rooms, adminSockets, socketToSession,
                 aiEnabledSessions, lastUserMessages, now, chatSessions,
                 nextGen, apiKey, accepted>>

\* saveMessage, lines 37-47: message.create completes
SaveMessageInsert(t, ok) ==
  /\ Saving(t) /\ tasks[t].pc = "insert"
  /\ IF ok
     THEN /\ messages' = Append(messages,
               MessageRow(tasks[t].sid, SaveArgs(t).sender, SaveArgs(t).content,
                          SaveArgs(t).isAI, tasks[t].stage))
          /\ AfterSave(t)
     ELSE /\ AfterSaveFailed(t)
          /\ emitted' = <<>>
          /\ UNCHANGED <<messages, activeSessions>>
  /\ UNCHANGED <<connected, rooms, adminSockets, socketToSession,
                 aiEnabledSessions, lastUserMessages, now, chatSessions,
                 nextGen, apiKey, accepted>>

\* ---- automated reply ----

\* getMessages, chatService.js lines 50-57: the rows of the conversation (by
\* their position in the table), in the order of insertion
GetMessages(sessionId) ==
  IF SessionExists(sessionId)
  THEN SelectSeq([i \in 1..Len(messages) |-> i],
                 LAMBDA i : messages[i].chatSessionId = sessionId)
  ELSE <<>>

\* Array.prototype.slice(-n): the last n elements
SliceLast(seq, n) ==
  IF Len(seq) > n THEN SubSeq(seq, Len(seq) - n + 1, Len(seq)) ELSE seq

\* lines 251-258: recentMessages.slice(-6).map(...); row is the position of
\* the message in the table
ConversationHistory(sessionId) ==
  LET recentMessages == SliceLast(GetMessages(sessionId), HistoryLimit) IN
  [j \in 1..Len(recentMessages) |->
     [role |-> IF messages[recentMessages[j]].sender = "user"
               THEN "user" ELSE "assistant",
      content |-> messages[recentMessages[j]].content,
      row |-> recentMessages[j]]]

\* getMessages of line 252 completes; generateResponse runs up to axios.post,
\* or throws at once when the key is missing (chatGPTService.js lines 20-24)
AiHistoryFetched(t, ok) ==
  /\ tasks[t].kind = "user" /\ tasks[t].stage = "history"
  /\ IF ok /\ apiKey # "" /\ apiKey # PlaceholderKey
     THEN tasks' = [tasks EXCEPT ![t].stage = "call", ![t].pc = "call",
                                 ![t].history = ConversationHistory(tasks[t].sid)]
     ELSE StartFallback(t)
  /\ emitted' = <<>>
  /\ UNCHANGED <<connected, rooms, adminSockets, activeSessions,
                 socketToSession, aiEnabledSessions, lastUserMessages,
                 processingRequests, timers, now, chatSessions, messages,
                 nextGen, apiKey, accepted>>

\* axios.post of chatGPTService.js line 36 completes: a reply text, or one of
\* the failures of lines 47-71; saveMessage of line 269 then starts
AiResponded(t, result) ==
  /\ tasks[t].kind = "user" /\ tasks[t].stage = "call"
  /\ IF result.status = "ok"
     THEN tasks' = [tasks EXCEPT ![t].stage = "reply", ![t].pc = "find",
                                 ![t].reply = Trim(result.text)]
     ELSE StartFallback(t)
  /\ emitted' = <<>>
  /\ UNCHANGED <<connected, rooms, adminSockets, activeSessions,
                 socketToSession, aiEnabledSessions, lastUserMessages,
                 processingRequests, timers, now, chatSessions, messages,
                 nextGen, apiKey, accepted>>

ResponderFailures ==
  {[status |-> st, text |-> ""] : st \in {"http_error", "malformed", "no_response"}}

\* ---- environments ----

OkReply == [status |-> "ok", text |-> "ok "]

\* routing: two connections, one conversation, a reliable store
RouteSubmits == 2
RouteTasks == 1
RouteSocks == {"s1", "s2"}
RouteSids == {"k"}
RouteRooms == {"k", "k_a"}

InitRoute == InitWith({"sk-live"})

NextRoute ==
  \/ \E s \in RouteSocks : Connect(s)
  \/ \E s \in RouteSocks : Disconnect(s)
  \/ \E s \in RouteSocks : AdminConnect(s)
  \/ \E s \in RouteSocks, k \in RouteRooms : AdminJoinSession(s, k)
  \/ \E s \in RouteSocks, k \in RouteSids : AdminLeaveSession(s, k)
  \/ \E s \in RouteSocks, k \in RouteSids : ToggleAiMode(s, k, TRUE)
  \/ \E t \in 1..RouteTasks, s \in RouteSocks, k \in RouteSids : InitSessionStart(t, s, k)
  \/ \E t \in 1..RouteTasks : InitSessionFound(t, TRUE)
  \/ \E t \in 1..RouteTasks : InitSessionRecreated(t, TRUE)
  \/ \E t \in 1..RouteTasks, s \in RouteSocks, k \in RouteSids :
       Len(accepted) < RouteSubmits /\ UserMessageStart(t, s, k, "a")
  \/ \E t \in 1..RouteTasks, s \in RouteSocks, k \in RouteSids :
       Len(accepted) < RouteSubmits /\ AdminMessageStart(t, s, k, "b")
  \/ \E t \in 1..RouteTasks : SaveMessageFind(t, TRUE)
  \/ \E t \in 1..RouteTasks : SaveMessageCreate(t, TRUE)
  \/ \E t \in 1..RouteTasks : SaveMessageInsert(t, TRUE)
  \/ \E t \in 1..RouteTasks : AiHistoryFetched(t, TRUE)
  \/ \E t \in 1..RouteTasks, r \in {OkReply, [status |-> "no_response", text |-> ""]} :
       AiResponded(t, r)

SpecRoute == InitRoute /\ [][NextRoute]_vars

\* ---- fan-out of message events (SpecRoute) ----

\* number of message events of row id the last step sent to connection c
Delivered(c, id) ==
  Cardinality({i \in 1..Len(emitted') :
     /\ emitted'[i].to = c
     /\ emitted'[i].event = "message"
     /\ emitted'[i].data.id = id})

\* a step in which handler t persists a row
Persists(t, origins) ==
  /\ Len(messages') = Len(messages) + 1
  /\ tasks[t].stage \in origins
  /\ tasks[t].pc \in {"find", "insert"}
  /\ tasks'[t] # tasks[t]

IsMember(c, sessionId) == c \in connected /\ sessionId \in rooms[c]

C5_AdminToWholeRoom ==
  [][/\ \A t \in TaskIds : Persists(t, {"admin", "reply", "fallback"}) =>
          \A c \in Sock :
            IsMember(c, tasks[t].sid) => Delivered(c, Len(messages')) = 1
     /\ \A i \in 1..Len(emitted') :
          emitted'[i].event = "message" =>
            /\ emitted'[i].data.id = Len(messages')
            /\ Len(messages') = Len(messages) + 1]_vars

\* an automated reply has just reached two members of the room, one of which
\* is no administrator
C5_Witness ==
  \E i, j \in 1..Len(emitted) :
    /\ emitted[i].event = "message" /\ emitted[j].event = "message"
    /\ emitted[i].to # emitted[j].to
    /\ emitted[i].data.sender = "admin"
    /\ messages[emitted[i].data.id].origin = "reply"
    /\ emitted[i].to \notin adminSockets

\* C6: a message event of a conversation reaches only live connections that
\* are members of the room of that conversation
C6_OnlyMembers ==
  \A i \in 1..Len(emitted) :
    emitted[i].event = "message" =>
      /\ emitted[i].to \in connected
      /\ emitted[i].data.sessionId \in rooms[emitted[i].to]

\* a message has just been delivered while an administrator that is a member
\* of another room only received nothing
C6_Witness ==
  /\ \E i \in 1..Len(emitted) : emitted[i].event = "message"
  /\ \E c \in adminSockets :
       /\ rooms[c] = {"k_a"}
       /\ \A i \in 1..Len(emitted) : emitted[i].to # c

\* ---- intake: duplicates and the in-flight guard (SpecIntake) ----

IntakeSubmits == 3
IntakeTasks == 2
IntakeSocks == {"s1", "s2"}
IntakeContents == {"a", " a", "b", "  "}
IntakeInstants == {4999, 5000, 30000, 60000}

InitIntake == InitWith({"sk-live"})

NextIntake ==
  \/ \E s \in IntakeSocks : Connect(s)
  \/ \E t \in 1..IntakeTasks, s \in IntakeSocks, c \in IntakeContents :
       Len(accepted) < IntakeSubmits /\ UserMessageStart(t, s, "k", c)
  \/ \E t \in 1..IntakeTasks : SaveMessageFind(t, TRUE)
  \/ \E t \in 1..IntakeTasks : SaveMessageCreate(t, TRUE)
  \/ \E t \in 1..IntakeTasks : SaveMessageInsert(t, TRUE)
  \/ Tick(IntakeInstants)
  \/ CleanupTimer

SpecIntake == InitIntake /\ [][NextIntake]_vars

\* a step that accepts a user submission
Accepts == Len(accepted') = Len(accepted) + 1 /\ accepted'[Len(accepted')].kind = "user"

\* the accepted user submissions of a conversation, oldest first
AcceptedFor(sessionId) ==
  SelectSeq(accepted, LAMBDA a : a.kind = "user" /\ a.sid = sessionId)

\* C2 as claimed: a user_message that passes the checks persists exactly one
\* row with sender user and the normalised content, and rows never change
C2_ExactlyOneRow ==
  [][/\ \A t \in TaskIds :
          (tasks[t].kind = "user" /\ tasks[t].stage = "user"
             /\ tasks'[t].stage # "user") =>
            /\ Len(messages') = Len(messages) + 1
            /\ messages'[Len(messages')].chatSessionId = tasks[t].sid
            /\ messages'[Len(messages')].sender = "user"
            /\ messages'[Len(messages')].content = tasks[t].content
     /\ \A i \in 1..Len(messages) :
          i <= Len(messages') /\ messages'[i] = messages[i]]_vars

\* C3 as claimed: the same normalised content is never accepted twice for a
\* conversation less than 5 s apart
C3_NeverTwiceInWindow ==
  [][Accepts =>
       LET new == accepted'[Len(accepted')] IN
       \A i \in 1..Len(accepted) :
         ~ /\ accepted[i].kind = "user"
           /\ accepted[i].sid = new.sid
           /\ accepted[i].content = new.content
           /\ new.at - accepted[i].at < DedupWindowMs]_vars

\* the rows a user_message handler wrote for its own content
UserRows == SelectSeq(messages, LAMBDA m : m.origin = "user")

\* the accepted user submissions, oldest first
AcceptedUsers == SelectSeq(accepted, LAMBDA a : a.kind = "user")

\* C3 amended: a submission whose normalised content equals the content last
\* accepted for the conversation, less than 5 s before, is not accepted,
\* whichever connection sends it, and only accepted submissions persist a
\* user row, so that at most one row comes of the two
C3_RejectsRepeatOfLast ==
  [][/\ Accepts =>
          LET new == accepted'[Len(accepted')]
              before == AcceptedFor(new.sid)
          IN Len(before) > 0 =>
               ~ /\ before[Len(before)].content = new.content
                 /\ new.at - before[Len(before)].at < DedupWindowMs
     /\ Len(UserRows') <= Len(AcceptedUsers')]_vars

\* a submission was accepted less than 5 s ago, its handler has finished, and
\* two connections are there to repeat it
C3_Witness ==
  /\ Cardinality(connected) = 2
  /\ processingRequests = {}
  /\ lastUserMessages["k"].timestamp >= 0
  /\ now - lastUserMessages["k"].timestamp < DedupWindowMs

\* C4 as claimed: at most one submission per conversation and normalised
\* content is in flight
C4_OneInFlightPerKey ==
  \A t, u \in TaskIds :
    (t # u /\ tasks[t].kind = "user" /\ tasks[u].kind = "user") =>
      ~(tasks[t].sid = tasks[u].sid /\ tasks[t].content = tasks[u].content)

\* ---- concurrent handlers with auto-mode (SpecRace) ----

RaceSubmits == 2
RaceTasks == 2
RaceSocks == {"s1", "s2"}

InitRace == InitWith({"sk-live"})

NextRace ==
  \/ \E s \in RaceSocks : Connect(s)
  \/ \E s \in RaceSocks : ToggleAiMode(s, "k", TRUE)
  \/ \E t \in 1..RaceTasks, s \in RaceSocks, c \in {"a", "b"} :
       Len(accepted) < RaceSubmits /\ UserMessageStart(t, s, "k", c)
  \/ \E t \in 1..RaceTasks : SaveMessageFind(t, TRUE)
  \/ \E t \in 1..RaceTasks : SaveMessageCreate(t, TRUE)
  \/ \E t \in 1..RaceTasks : SaveMessageInsert(t, TRUE)
  \/ \E t \in 1..RaceTasks : AiHistoryFetched(t, TRUE)
  \/ \E t \in 1..RaceTasks, r \in {OkReply, [status |-> "no_response", text |-> ""]} :
       AiResponded(t, r)

SpecRace == InitRace /\ [][NextRace]_vars

\* C7 as claimed: with auto-mode enabled, a handler that accepted a user
\* message ends having persisted the user's row and then, in its last step,
\* one administrator row, the reply or the fallback text
C7_ExactlyTwo ==
  [][\A t \in TaskIds :
       (tasks[t].kind = "user" /\ tasks[t].auto /\ tasks'[t] = Idle) =>
         /\ Len(tasks[t].saved) = 1
         /\ messages[tasks[t].saved[1]].sender = "user"
         /\ messages[tasks[t].saved[1]].content = tasks[t].content
         /\ Len(messages') = Len(messages) + 1
         /\ messages'[Len(messages')].sender = "admin"
         /\ messages'[Len(messages')].chatSessionId = tasks[t].sid
         /\ messages'[Len(messages')].content \in {tasks[t].reply, FallbackText}]_vars

\* ---- automated replies with an unreliable store and responder (SpecAuto) ----

AutoSubmits == 2
AutoTasks == 1
AutoSocks == {"s1", "s2"}
LongText == Repeat("x", maxLength + 1)

InitAuto == InitWith({"", PlaceholderKey, "sk-live"})

NextAuto ==
  \/ \E s \in AutoSocks : Connect(s)
  \/ \E s \in AutoSocks : Disconnect(s)
  \/ \E s \in AutoSocks : AdminJoinSession(s, "k")
  \/ \E s \in AutoSocks : ToggleAiMode(s, "k", TRUE)
  \/ \E t \in 1..AutoTasks, s \in AutoSocks, c \in {"a", LongText} :
       Len(accepted) < AutoSubmits /\ UserMessageStart(t, s, "k", c)
  \/ \E t \in 1..AutoTasks, s \in AutoSocks :
       Len(accepted) < AutoSubmits /\ AdminMessageStart(t, s, "k", LongText)
  \/ \E t \in 1..AutoTasks, ok \in BOOLEAN : SaveMessageFind(t, ok)
  \/ \E t \in 1..AutoTasks, ok \in BOOLEAN : SaveMessageCreate(t, ok)
  \/ \E t \in 1..AutoTasks, ok \in BOOLEAN : SaveMessageInsert(t, ok)
  \/ \E t \in 1..AutoTasks, ok \in BOOLEAN : AiHistoryFetched(t, ok)
  \/ \E t \in 1..AutoTasks, r \in {OkReply} \cup ResponderFailures :
       AiResponded(t, r)

SpecAuto == InitAuto /\ [][NextAuto]_vars

\* C8 as claimed: a row is flagged as automated exactly when the responder
\* reply or the fallback text is its content
C8_FlagIffAutomated ==
  \A i \in 1..Len(messages) :
    messages[i].isAI <=> messages[i].origin \in {"reply", "fallback"}

\* a step in which the call of the responder by handler t fails: no key, or
\* the request ends in one of the failures
ResponderFails(t) ==
  /\ tasks[t].kind = "user"
  /\ \/ tasks[t].stage = "history" /\ tasks'[t].stage \notin {"history", "call"}
     \/ tasks[t].stage = "call" /\ tasks'[t].stage \notin {"call", "reply"}

\* a step of handler t while it saves the fallback
FallbackStep(t) == tasks[t].stage = "fallback" /\ tasks'[t] # tasks[t]

\* the step persists the fallback text as an administrator row of the
\* conversation of handler t and sends it to every member of the room
FallbackPersisted(t) ==
  /\ Len(messages') = Len(messages) + 1
  /\ messages'[Len(messages')].sender = "admin"
  /\ messages'[Len(messages')].content = FallbackText
  /\ messages'[Len(messages')].chatSessionId = tasks[t].sid
  /\ \A c \in Sock : IsMember(c, tasks[t].sid) => Delivered(c, Len(messages')) = 1

\* the row of the user's own message is still what the handler persisted
UserRowStays(t) ==
  /\ Len(tasks[t].saved) = 1
  /\ messages'[tasks[t].saved[1]] = messages[tasks[t].saved[1]]
  /\ messages[tasks[t].saved[1]].sender = "user"
  /\ messages[tasks[t].saved[1]].content = tasks[t].content

\* C9 as claimed: every failure of the responder is caught and ends with the
\* fallback text persisted and sent to every member of the room, the user's
\* row staying as it was
C9_FallbackAlways ==
  [][\A t \in TaskIds :
       /\ ResponderFails(t) =>
            /\ tasks'[t].stage = "fallback" /\ tasks'[t].pc = "find"
            /\ messages' = messages
       /\ FallbackStep(t) =>
            /\ FallbackPersisted(t)
            /\ UserRowStays(t)
            /\ tasks'[t] = Idle]_vars

\* C9 amended: every failure of the responder is caught and starts the save
\* of the fallback text; the save persists it and sends it to every member
\* of the room, unless the store fails, and then nothing is persisted or
\* sent; the handler ends either way and the user's row stays as it was
C9_FallbackUnlessStoreFails ==
  [][\A t \in TaskIds :
       /\ ResponderFails(t) =>
            /\ tasks'[t].stage = "fallback" /\ tasks'[t].pc = "find"
            /\ messages' = messages
       /\ FallbackStep(t) =>
            /\ FallbackPersisted(t) \/ (messages' = messages /\ emitted' = <<>>)
            /\ UserRowStays(t)
            /\ tasks'[t] = Idle]_vars

\* the fallback text has just been persisted and sent to two members of the
\* room after the responder failed with a configured key
C9_Witness ==
  /\ apiKey = "sk-live"
  /\ Len(messages) > 0
  /\ messages[Len(messages)].origin = "fallback"
  /\ \E i, j \in 1..Len(emitted) :
       /\ emitted[i].to # emitted[j].to
       /\ emitted[i].event = "message" /\ emitted[j].event = "message"
       /\ emitted[i].data.content = FallbackText

\* C10 as claimed: no row holds a content of more than 500 characters
C10_ContentBounded ==
  \A i \in 1..Len(messages) : Len(messages[i].content) <= maxLength

\* ---- normalisation and validation of content (SpecNormalize) ----

NormalizeSubmits == 2
NormalizeTasks == 1
NormalizeSocks == {"s1", "s2"}
NormalizeInputs ==
  {"a", " a ", "  ", Repeat("x", maxLength),
   " " \o Repeat("x", maxLength + 1) \o " "}
NormalizeAdminInputs == {"b", "  "}

InitNormalize == InitWith({"sk-live"})

NextNormalize ==
  \/ \E s \in NormalizeSocks : Connect(s)
  \/ \E t \in 1..NormalizeTasks, s \in NormalizeSocks, c \in NormalizeInputs :
       Len(accepted) < NormalizeSubmits /\ UserMessageStart(t, s, "k", c)
  \/ \E t \in 1..NormalizeTasks, s \in NormalizeSocks, c \in NormalizeAdminInputs :
       Len(accepted) < NormalizeSubmits /\ AdminMessageStart(t, s, "k", c)
  \/ \E t \in 1..NormalizeTasks : SaveMessageFind(t, TRUE)
  \/ \E t \in 1..NormalizeTasks : SaveMessageCreate(t, TRUE)
  \/ \E t \in 1..NormalizeTasks : SaveMessageInsert(t, TRUE)

SpecNormalize == InitNormalize /\ [][NextNormalize]_vars

\* normalize as the claim states it
NormalizeAsClaimed(raw) ==
  IF Len(Trim(raw)) <= maxLength
  THEN Trim(raw)
  ELSE SubSeq(Trim(raw), 1, maxLength) \o "..."

\* C11: the content a user_message handler works with and persists is the
\* trimmed raw content when that has at most 500 characters, and else its
\* first 500 characters followed by the marker
C11_PersistsNormalized ==
  [][\A t \in TaskIds :
       /\ tasks'[t].kind = "user" =>
            tasks'[t].content = NormalizeAsClaimed(tasks'[t].raw)
       /\ Persists(t, {"user"}) =>
            messages'[Len(messages')].content = NormalizeAsClaimed(tasks[t].raw)]_vars

\* a user row holds a content that was cut: 500 characters and the marker
C11_Witness ==
  \E i \in 1..Len(messages) :
    /\ messages[i].origin = "user"
    /\ Len(messages[i].content) = maxLength + 3
    /\ SubSeq(messages[i].content, maxLength + 1, maxLength + 3) = "..."

\* C12 as claimed: no row, whatever its sender, holds a content that is
\* empty once trimmed
C12_NoBlankRow ==
  \A i \in 1..Len(messages) : Len(Trim(messages[i].content)) > 0

\* ---- session-init with an unreliable store (SpecSession) ----

SessionTasks == 2
SessionSocks == {"s1", "s2"}
SessionIds == {NoSession, "k"}

InitSessionEnv == InitWith({"sk-live"})

NextSession ==
  \/ \E s \in SessionSocks : Connect(s)
  \/ \E s \in SessionSocks : Disconnect(s)
  \/ \E t \in 1..SessionTasks, s \in SessionSocks, k \in SessionIds :
       InitSessionStart(t, s, k)
  \/ \E t \in 1..SessionTasks, ok \in BOOLEAN : InitSessionCreated(t, ok)
  \/ \E t \in 1..SessionTasks, ok \in BOOLEAN : InitSessionFound(t, ok)
  \/ \E t \in 1..SessionTasks, ok \in BOOLEAN : InitSessionRecreated(t, ok)
  \/ \E t \in 1..SessionTasks, s \in SessionSocks : GetAllSessionsStart(t, s)
  \/ \E t \in 1..SessionTasks : GetAllSessionsDone(t, TRUE)

SpecSession == InitSessionEnv /\ [][NextSession]_vars

\* ---- presence: administrators, the registry and its broadcasts (SpecPresence) ----

PresenceSubmits == 2
PresenceTasks == 2
PresenceSocks == {"s1", "s2"}

InitPresence == InitWith({"sk-live"})

NextPresence ==
  \/ \E s \in PresenceSocks : Connect(s)
  \/ \E s \in PresenceSocks : Disconnect(s)
  \/ \E s \in PresenceSocks : AdminConnect(s)
  \/ \E s \in PresenceSocks : GetSessions(s)
  \/ \E s \in PresenceSocks : AdminJoinSession(s, "k")
  \/ \E t \in 1..PresenceTasks, s \in PresenceSocks : InitSessionStart(t, s, "k")
  \/ \E t \in 1..PresenceTasks : InitSessionFound(t, TRUE)
  \/ \E t \in 1..PresenceTasks : InitSessionRecreated(t, TRUE)
  \/ \E t \in 1..PresenceTasks, s \in PresenceSocks :
       Len(accepted) < PresenceSubmits /\ UserMessageStart(t, s, "k", "a")
  \/ \E t \in 1..PresenceTasks : SaveMessageFind(t, TRUE)
  \/ \E t \in 1..PresenceTasks : SaveMessageCreate(t, TRUE)
  \/ \E t \in 1..PresenceTasks : SaveMessageInsert(t, TRUE)

SpecPresence == InitPresence /\ [][NextPresence]_vars

\* a step in which the init_session handler t ends
InitEnds(t, stage) ==
  tasks[t].kind = "init" /\ tasks[t].stage = stage /\ tasks'[t] = Idle

\* the acknowledgments the last step sent to connection c
Acks(c) ==
  SelectSeq(emitted', LAMBDA e : e.to = c /\ e.event = "ack")

\* C13 as claimed: a connection that is bound stays bound to the same
\* conversation and joins no further room as long as it is connected
C13_BoundOnce ==
  [][\A s \in Sock :
       (socketToSession[s] # NoSession /\ s \in connected') =>
         /\ socketToSession'[s] = socketToSession[s]
         /\ rooms'[s] \subseteq rooms[s] \cup {socketToSession[s]}]_vars

\* C14: the disconnect of a connection bound to a conversation leaves the
\* view of that conversation inactive and its preview as it was
C14_DisconnectKeepsPreview ==
  [][\A s \in Sock :
       (s \in connected /\ s \notin connected' /\ socketToSession[s] # NoSession) =>
         /\ HasView(socketToSession[s])
         /\ activeSessions'[ViewIndex(socketToSession[s])].sessionId =
              socketToSession[s]
         /\ activeSessions'[ViewIndex(socketToSession[s])].isActive = FALSE
         /\ activeSessions'[ViewIndex(socketToSession[s])].lastMessage =
              ViewOf(socketToSession[s]).lastMessage]_vars

\* the end-user of a conversation whose preview is a message has just
\* disconnected, and an administrator was told
C14_Witness ==
  /\ HasView("k")
  /\ ~ViewOf("k").isActive
  /\ ViewOf("k").lastMessage = "a"
  /\ \A t \in TaskIds : tasks[t].kind = "idle"
  /\ \E c \in Sock : c \notin connected /\ rooms[c] = {} /\ socketToSession[c] = NoSession
  /\ \E i \in 1..Len(emitted) :
       /\ emitted[i].event = "sessions-list"
       /\ \E j \in 1..Len(emitted[i].data) :
            emitted[i].data[j].sessionId = "k" /\ ~emitted[i].data[j].isActive

\* C15 as claimed: an init_session for an identifier the store does not know
\* ends with a conversation of that identifier stored, no conversation of
\* another identifier created, and that identifier acknowledged
C15_RecreatesPresented ==
  [][\A t \in TaskIds : InitEnds(t, "existing") =>
       /\ \E i \in 1..Len(chatSessions') : chatSessions'[i] = tasks[t].sid
       /\ chatSessions' \in {chatSessions, Append(chatSessions, tasks[t].sid)}
       /\ \A i \in 1..Len(Acks(tasks[t].sock)) :
            Acks(tasks[t].sock)[i].data.sessionId = tasks[t].sid]_vars

\* the step creates the conversation of the identifier generated for handler
\* t, joins its room, binds the connection, enters an active view and
\* acknowledges the identifier to the connection if it is still there
CreatesFresh(t) ==
  /\ ~SessionExists(tasks[t].gen)
  /\ tasks[t].gen \notin ViewIds
  /\ chatSessions' = Append(chatSessions, tasks[t].gen)
  /\ tasks[t].gen \in rooms'[tasks[t].sock]
  /\ socketToSession'[tasks[t].sock] = tasks[t].gen
  /\ \E i \in 1..Len(activeSessions') :
       /\ activeSessions'[i].sessionId = tasks[t].gen
       /\ activeSessions'[i].isActive
  /\ Len(Acks(tasks[t].sock)) = (IF tasks[t].sock \in connected THEN 1 ELSE 0)
  /\ \A i \in 1..Len(Acks(tasks[t].sock)) :
       Acks(tasks[t].sock)[i].data.sessionId = tasks[t].gen

\* no identifier is given out twice
IdentifiersDiffer ==
  /\ \A i, j \in 1..Len(chatSessions) : chatSessions[i] = chatSessions[j] => i = j
  /\ \A t, u \in TaskIds :
       (t # u /\ tasks[t].gen # "" /\ tasks[u].gen # "") => tasks[t].gen # tasks[u].gen

C17_SaveNeverFails ==
  [][/\ \A t \in TaskIds :
          (Saving(t) /\ tasks[t].pc = "create" /\ tasks'[t] # tasks[t]) =>
            tasks'[t].pc = "insert"
     /\ \A i, j \in 1..Len(chatSessions') :
          chatSessions'[i] = chatSessions'[j] => i = j]_vars

\* number of sessions-list events the last step sent to connection c
ListsSent(c) ==
  Cardinality({i \in 1..Len(emitted') :
     emitted'[i].to = c /\ emitted'[i].event = "sessions-list"})

\* a step of a handler that broadcasts: an asynchronous handler moves on, or
\* a connection goes
MayBroadcast == tasks' # tasks \/ connected' # connected

\* C18: a broadcast of the registry goes exactly once to every connection
\* that has identified as administrator and is connected, joined or not,
\* and to no other connection; it carries the registry
C18_BroadcastToAdmins ==
  [][MayBroadcast =>
       /\ \A c \in Sock :
            /\ ListsSent(c) <= 1
            /\ ListsSent(c) = 1 => (c \in adminSockets' /\ c \in connected')
       /\ (\E c \in Sock : ListsSent(c) = 1) =>
            \A c \in Sock :
              (c \in adminSockets' /\ c \in connected') => ListsSent(c) = 1
       /\ \A i \in 1..Len(emitted') :
            emitted'[i].event = "sessions-list" =>
              emitted'[i].data = activeSessions']_vars

\* a broadcast has just reached two administrators, one of which has joined
\* no room, after a handler ended
C18_Witness ==
  /\ \E i, j \in 1..Len(emitted) :
       /\ emitted[i].event = "sessions-list" /\ emitted[j].event = "sessions-list"
       /\ emitted[i].to # emitted[j].to
       /\ rooms[emitted[i].to] = {}
  /\ adminSockets = connected
  /\ Len(messages) > 0

\* C19 as claimed: the set of conversations in auto-mode changes only when
\* a connection that has identified as administrator toggles it; such a
\* connection exists then
C19_OnlyAdminToggles ==
  [][aiEnabledSessions' # aiEnabledSessions =>
       \E c \in connected : c \in adminSockets]_vars

\* the conversations of the store
StoredIds == {chatSessions[i] : i \in 1..Len(chatSessions)}

\* C20 as claimed: an all-sessions-list holds every stored conversation and
\* every conversation of the registry exactly once
C20_ListsStoredAndActive ==
  \A i \in 1..Len(emitted) :
    emitted[i].event = "all-sessions-list" =>
      \A id \in StoredIds \cup ViewIds :
        Cardinality({j \in 1..Len(emitted[i].data) :
                       emitted[i].data[j].sessionId = id}) = 1

\* the place in the log of accepted submissions of the submission that
\* handler t works on
AcceptedAt(t) ==
  CHOOSE i \in 1..Len(accepted) :
    /\ accepted[i].kind = "user"
    /\ accepted[i].sid = tasks[t].sid
    /\ accepted[i].content = tasks[t].content
    /\ \A j \in 1..Len(accepted) :
         (accepted[j].kind = "user" /\ accepted[j].sid = tasks[t].sid
            /\ accepted[j].content = tasks[t].content) => j <= i

\* C22 as claimed: a user message is not persisted while an earlier message
\* of the same connection for the same conversation is still to be persisted
C22_NoOvertaking ==
  [][\A u \in TaskIds : Persists(u, {"user"}) =>
       \A t \in TaskIds :
         (/\ t # u
          /\ tasks[t].kind = "user" /\ tasks[t].stage = "user"
          /\ tasks[t].sock = tasks[u].sock
          /\ tasks[t].sid = tasks[u].sid) => AcceptedAt(u) < AcceptedAt(t)]_vars

\* C23 as claimed: a connection that has disconnected has no binding
C23_NoBindingAfterDisconnect ==
  \A s \in Sock : s \notin connected => socketToSession[s] = NoSession

\* C24: a user_message handler that ends, however it ends, leaves no guard
\* entry for its key, and the guard map is empty whenever no user_message
\* handler is running
C24_GuardReleased ==
  [][/\ \A t \in TaskIds :
          (tasks[t].kind = "user" /\ tasks'[t] = Idle) =>
            tasks[t].key \notin processingRequests'
     /\ (\A t \in TaskIds : tasks'[t].kind # "user") => processingRequests' = {}]_vars

\* a user_message handler has ended in the catch for the store, nothing is
\* persisted, and the guard map is empty
C24_Witness ==
  /\ Len(accepted) > 0
  /\ accepted[1].kind = "user"
  /\ messages = <<>>
  /\ \A t \in TaskIds : tasks[t].kind = "idle"
  /\ processingRequests = {}
  /\ timers # {}

\* C25 as claimed: a guard entry is gone 30 s after it was set, also when
\* the handler that set it hangs
C25_GuardGoneAfterDelay ==
  \A t \in TaskIds :
    (tasks[t].kind = "user" /\ tasks[t].key \in processingRequests) =>
      now - accepted[AcceptedAt(t)].at <= CleanupDelayMs

\* C26 as claimed: the delayed delete does not remove the guard entry of a
\* handler that is running
C26_TimerSparesRunning ==
  [][(tasks' = tasks /\ processingRequests' # processingRequests) =>
       \A t \in TaskIds :
         (tasks[t].kind = "user" /\ tasks[t].key \in processingRequests) =>
           tasks[t].key \in processingRequests']_vars

\* ---- automated replies in a conversation with a view (SpecReply) ----

ReplySubmits == 1
ReplyTasks == 1
ReplySocks == {"s1", "s2"}

InitReply == InitWith({"sk-live"})

NextReply ==
  \/ \E s \in ReplySocks : Connect(s)
  \/ \E s \in ReplySocks : Disconnect(s)
  \/ \E s \in ReplySocks : AdminConnect(s)
  \/ \E s \in ReplySocks : AdminJoinSession(s, "k")
  \/ \E s \in ReplySocks : ToggleAiMode(s, "k", TRUE)
  \/ \E t \in 1..ReplyTasks, s \in ReplySocks : InitSessionStart(t, s, "k")
  \/ \E t \in 1..ReplyTasks : InitSessionFound(t, TRUE)
  \/ \E t \in 1..ReplyTasks : InitSessionRecreated(t, TRUE)
  \/ \E t \in 1..ReplyTasks, s \in ReplySocks :
       Len(accepted) < ReplySubmits /\ UserMessageStart(t, s, "k", "a")
  \/ \E t \in 1..ReplyTasks : SaveMessageFind(t, TRUE)
  \/ \E t \in 1..ReplyTasks : SaveMessageCreate(t, TRUE)
  \/ \E t \in 1..ReplyTasks : SaveMessageInsert(t, TRUE)
  \/ \E t \in 1..ReplyTasks : AiHistoryFetched(t, TRUE)
  \/ \E t \in 1..ReplyTasks, r \in {OkReply, [status |-> "no_response", text |-> ""]} :
       AiResponded(t, r)

SpecReply == InitReply /\ [][NextReply]_vars

\* the step in which handler t enters the AI branch
EntersAiBranch(t) == tasks[t].stage = "user" /\ tasks'[t].stage = "history"

\* C21: the handler enters the AI branch in the step that persists the
\* user's row and sends it to the administrators of the room; the call of
\* the responder and the row of the reply or fallback come after that row
C21_ReplyAfterMessage ==
  [][\A t \in TaskIds :
       /\ EntersAiBranch(t) =>
            /\ Len(messages') = Len(messages) + 1
            /\ messages'[Len(messages')].sender = "user"
            /\ messages'[Len(messages')].content = tasks[t].content
            /\ tasks'[t].saved = <<Len(messages')>>
            /\ \A c \in Sock :
                 Delivered(c, Len(messages')) =
                   IF c \in adminSockets /\ IsMember(c, tasks[t].sid) THEN 1 ELSE 0
       /\ tasks'[t].stage \in {"history", "call", "reply", "fallback"} =>
            /\ Len(tasks'[t].saved) = 1
            /\ messages'[tasks'[t].saved[1]].origin = "user"
            /\ messages'[tasks'[t].saved[1]].content = tasks'[t].content
       /\ Persists(t, {"reply", "fallback"}) =>
            tasks[t].saved[1] < Len(messages')]_vars

\* the responder is being called for a message that is persisted, in a room
\* with an administrator
C21_Witness ==
  \E t \in TaskIds :
    /\ tasks[t].stage = "call"
    /\ Len(messages) = 1
    /\ \E c \in adminSockets : IsMember(c, tasks[t].sid)

\* C27 as claimed: when the handler enters the AI branch the view of the
\* conversation shows the preview of the user's message and the registry
\* has been broadcast to the administrators
C27_PreviewBeforeResponder ==
  [][\A t \in TaskIds :
       (EntersAiBranch(t) /\ HasView(tasks[t].sid)) =>
         /\ activeSessions'[ViewIndex(tasks[t].sid)].lastMessage =
              UserPreview(tasks[t].content)
         /\ \A c \in Sock :
              (c \in adminSockets /\ c \in connected) => ListsSent(c) = 1]_vars

\* C28 as claimed: once a reply or fallback is persisted the view of the
\* conversation shows the administrator-style preview of it
C28_PreviewOfReply ==
  [][\A t \in TaskIds :
       (Persists(t, {"reply", "fallback"}) /\ HasView(tasks[t].sid)) =>
         activeSessions'[ViewIndex(tasks[t].sid)].lastMessage =
           AdminPreview(messages'[Len(messages')].content)]_vars

FaultSubmits == 2
FaultTasks == 1
FaultSocks == {"s1", "s2"}

InitFault == InitWith({""})

NextFault ==
  \/ \E s \in FaultSocks : Connect(s)
  \/ \E s \in FaultSocks : AdminConnect(s)
  \/ \E s \in FaultSocks : AdminJoinSession(s, "k")
  \/ \E t \in 1..FaultTasks, s \in FaultSocks : InitSessionStart(t, s, "k")
  \/ \E t \in 1..FaultTasks : InitSessionFound(t, TRUE)
  \/ \E t \in 1..FaultTasks : InitSessionRecreated(t, TRUE)
  \/ \E t \in 1..FaultTasks, s \in FaultSocks :
       Len(accepted) < FaultSubmits /\ UserMessageStart(t, s, "k", "a")
  \/ \E t \in 1..FaultTasks, s \in FaultSocks :
       Len(accepted) < FaultSubmits /\ AdminMessageStart(t, s, "k", "b")
  \/ \E t \in 1..FaultTasks, ok \in BOOLEAN : SaveMessageFind(t, ok)
  \/ \E t \in 1..FaultTasks, ok \in BOOLEAN : SaveMessageCreate(t, ok)
  \/ \E t \in 1..FaultTasks, ok \in BOOLEAN : SaveMessageInsert(t, ok)

SpecFault == InitFault /\ [][NextFault]_vars

\* the step in which the save of a user's or an administrator's message fails
SaveFails(t) ==
  /\ Saving(t) /\ tasks[t].stage \in {"user", "admin"}
  /\ tasks'[t] = Idle
  /\ messages' = messages

\* C30: the step in which the save of a user's or administrator's message
\* fails ends the handler, sends nothing (no message event, no list of
\* conversations), and leaves the views, the store, the rooms, the
\* connections, the automated-mode set and every other handler as they were
C30_FailureContained ==
  [][\A t \in TaskIds :
       SaveFails(t) =>
         /\ emitted' = <<>>
         /\ UNCHANGED <<activeSessions, chatSessions, messages, rooms, connected,
                        adminSockets, socketToSession, aiEnabledSessions>>
         /\ \A u \in TaskIds : u # t => tasks'[u] = tasks[u]]_vars

\* a submission to a conversation with a view and an administrator in its
\* room has ended without a row, and nothing was sent
C30_Witness ==
  /\ Len(accepted) = 1
  /\ messages = <<>>
  /\ \A t \in TaskIds : tasks[t] = Idle
  /\ HasView("k")
  /\ \E c \in adminSockets : "k" \in rooms[c]
  /\ emitted = <<>>

\* a user row with this content exists for the conversation
RowFor(sessionId, content) ==
  \E i \in 1..Len(messages) :
    /\ messages[i].chatSessionId = sessionId
    /\ messages[i].sender = "user"
    /\ messages[i].content = content

\* a user_message handler is saving this content for the conversation
BeingSaved(sessionId, content) ==
  \E t \in TaskIds :
    /\ tasks[t].kind = "user" /\ tasks[t].stage = "user"
    /\ tasks[t].sid = sessionId /\ tasks[t].content = content

\* C31 as claimed: the duplicate tracker of a conversation names only content
\* that is persisted (or whose save is still under way), so that a
\* submission whose save failed is not rejected as a duplicate when retried
C31_TrackerOnlyPersisted ==
  \A sessionId \in Sids :
    LET lastMessage == lastUserMessages[sessionId] IN
    (lastMessage.timestamp >= 0 /\ IsDuplicate(sessionId, lastMessage.content)) =>
      \/ RowFor(sessionId, lastMessage.content)
      \/ BeingSaved(sessionId, lastMessage.content)

\* content was accepted for the conversation before, and the submission last
\* accepted for it has another content or is 5 s old or older
OutsideWindow(sessionId, content) ==
  LET before == AcceptedFor(sessionId) IN
  /\ \E i \in 1..Len(before) : before[i].content = content
  /\ \/ before[Len(before)].content # content
     \/ now - before[Len(before)].at >= DedupWindowMs

\* the contents accepted so far
AcceptedContents == {accepted[i].content : i \in 1..Len(accepted)}

C33_RejectedChangesNothing ==
  [][/\ \A t \in TaskIds :
          (tasks[t].kind # "user" /\ tasks'[t].kind = "user") =>
            /\ Accepts
            /\ Len(Trim(tasks'[t].raw)) > 0
            /\ ~IsDuplicate(tasks'[t].sid, tasks'[t].content)
            /\ ~InFlight(tasks'[t].key)
     /\ lastUserMessages' # lastUserMessages => Accepts
     /\ ~(processingRequests' \subseteq processingRequests) => Accepts
     /\ (tasks' = tasks /\ ~Accepts) =>
          /\ UNCHANGED <<messages, chatSessions, lastUserMessages,
                         activeSessions, aiEnabledSessions>>
          /\ processingRequests' \subseteq processingRequests
          /\ emitted' = <<>>]_vars

\* a handler is processing content that the tracker holds inside the
\* window while another connection and a free handler are there: a repeat
\* is rejected by the duplicate check and by the guard, and the rejected
\* step ends in this same state
C33_Witness ==
  /\ \E t \in TaskIds :
       /\ tasks[t].kind = "user"
       /\ IsDuplicate(tasks[t].sid, tasks[t].content)
       /\ InFlight(tasks[t].key)
       /\ \E s \in connected : s # tasks[t].sock
  /\ \E u \in TaskIds : FreeTask(u)
  /\ now > 0

\* ---- request keys of two conversations (SpecKey) ----

KeySubmits == 2
KeyTasks == 2
KeySocks == {"s1", "s2"}
KeySessions == {"k", "k_a"}
KeyContents == {"b", "a_b"}

InitKey == InitWith({"sk-live"})

NextKey ==
  \/ \E s \in KeySocks : Connect(s)
  \/ \E t \in 1..KeyTasks, s \in KeySocks, sessionId \in KeySessions,
        c \in KeyContents :
       Len(accepted) < KeySubmits /\ UserMessageStart(t, s, sessionId, c)
  \/ \E t \in 1..KeyTasks : SaveMessageFind(t, TRUE)
  \/ \E t \in 1..KeyTasks : SaveMessageCreate(t, TRUE)
  \/ \E t \in 1..KeyTasks : SaveMessageInsert(t, TRUE)

SpecKey == InitKey /\ [][NextKey]_vars

\* C34 as claimed: the in-flight guard holds the key of a conversation and
\* content only while a handler is processing that content for that
\* conversation, so a submission is never rejected because of a submission
\* to another conversation
C34_GuardPerConversation ==
  \A sessionId \in KeySessions, c \in KeyContents :
    InFlight(RequestKey(sessionId, c)) =>
      \E t \in TaskIds :
        /\ tasks[t].kind = "user"
        /\ tasks[t].sid = sessionId
        /\ tasks[t].content = c

\* C35 as claimed: the responder is called with at most 6 history messages,
\* all of them rows of the conversation persisted before the row of the
\* current user message, oldest first, each tagged user or other
C35_HistoryBeforeMessage ==
  \A t \in TaskIds :
    tasks[t].stage = "call" =>
      LET h == tasks[t].history IN
      /\ Len(h) <= HistoryLimit
      /\ \A j \in 1..Len(h) :
           /\ h[j].row < tasks[t].saved[1]
           /\ messages[h[j].row].chatSessionId = tasks[t].sid
           /\ h[j].content = messages[h[j].row].content
           /\ h[j].role = "user" <=> messages[h[j].row].sender = "user"
      /\ \A j \in 1..Len(h), l \in 1..Len(h) : j < l => h[j].row < h[l].row

\* C36: the step that persists a message for a conversation without a view
\* ends the handler, fans the row out (a user's message to the administrators
\* in the room, any other to every member), leaves the registry as it was
\* and sends no list of conversations
C36_UnknownConversation ==
  [][\A t \in TaskIds :
       (Persists(t, {"user", "admin"}) /\ ~(tasks[t].sid \in ViewIds)) =>
         /\ messages'[Len(messages')].chatSessionId = tasks[t].sid
         /\ tasks'[t] = Idle
         /\ \A c \in Sock :
              Delivered(c, Len(messages')) =
                IF /\ IsMember(c, tasks[t].sid)
                   /\ tasks[t].stage = "user" => c \in adminSockets
                THEN 1 ELSE 0
         /\ activeSessions' = activeSessions
         /\ \A c \in Sock : ListsSent(c) = 0]_vars

\* a message for a conversation without a view is persisted and has just
\* been sent to an administrator in its room
C36_Witness ==
  /\ Len(messages) = 1
  /\ ~(messages[1].chatSessionId \in ViewIds)
  /\ \E i \in 1..Len(emitted) :
       /\ emitted[i].event = "message"
       /\ emitted[i].to \in adminSockets

\* ---- the registry under messages, toggles, inits and disconnects (SpecRegistry) ----

RegistrySubmits == 1
RegistryTasks == 1
RegistrySocks == {"s1", "s2"}
RegistryAdmins == {"s2"}
RegistrySessions == {"k", "k_a"}

\* the process has just started; the store holds the two conversations from
\* an earlier run
InitRegistry ==
  /\ connected = {}
  /\ rooms = [c \in Sock |-> {}]
  /\ adminSockets = {}
  /\ activeSessions = <<>>
  /\ socketToSession = [c \in Sock |-> NoSession]
  /\ aiEnabledSessions = {}
  /\ lastUserMessages = [k \in Sids |-> [content |-> "", timestamp |-> -1]]
  /\ processingRequests = {}
  /\ timers = {}
  /\ now = 0
  /\ chatSessions = <<"k", "k_a">>
  /\ messages = <<>>
  /\ nextGen = 0
  /\ apiKey = "sk-live"
  /\ tasks = [t \in TaskIds |-> Idle]
  /\ emitted = <<>>
  /\ accepted = <<>>

NextRegistry ==
  \/ \E s \in RegistrySocks : Connect(s)
  \/ \E s \in RegistrySocks : Disconnect(s)
  \/ \E s \in RegistryAdmins : AdminConnect(s)
  \/ \E s \in RegistryAdmins : ToggleAiMode(s, "k_a", TRUE)
  \/ \E t \in 1..RegistryTasks, s \in RegistrySocks, sessionId \in RegistrySessions :
       InitSessionStart(t, s, sessionId)
  \/ \E t \in 1..RegistryTasks : InitSessionFound(t, TRUE)
  \/ \E t \in 1..RegistryTasks, s \in RegistrySocks :
       Len(accepted) < RegistrySubmits /\ UserMessageStart(t, s, "k", "a")
  \/ \E t \in 1..RegistryTasks, s \in RegistrySocks :
       Len(accepted) < RegistrySubmits /\ AdminMessageStart(t, s, "k", "b")
  \/ \E t \in 1..RegistryTasks : SaveMessageFind(t, TRUE)

SpecRegistry == InitRegistry /\ [][NextRegistry]_vars

\* C37: no step removes a view, moves it or gives its place to another
\* conversation; a step adds at most one view, at the end, for an
\* identifier that has none; every list of conversations that is sent
\* carries the registry in that order
C37_RegistryAppendOnly ==
  [][/\ Len(activeSessions') \in {Len(activeSessions), Len(activeSessions) + 1}
     /\ \A i \in 1..Len(activeSessions) :
          /\ activeSessions'[i].sessionId = activeSessions[i].sessionId
          /\ activeSessions'[i].user = activeSessions[i].user
     /\ \A i \in 1..Len(activeSessions'), j \in 1..Len(activeSessions') :
          i # j => activeSessions'[i].sessionId # activeSessions'[j].sessionId
     /\ \A i \in 1..Len(emitted') :
          emitted'[i].event = "sessions-list" =>
            emitted'[i].data = activeSessions']_vars

\* two views are there, in the order of their first activation, after the
\* connection of the first has gone, a message was persisted and automated
\* mode was switched on
C37_Witness ==
  /\ Len(activeSessions) = 2
  /\ activeSessions[1].sessionId = "k_a"
  /\ ~activeSessions[1].isActive
  /\ activeSessions[2].lastMessage = UserPreview("a")
  /\ Len(messages) = 1
  /\ aiEnabledSessions # {}

\* C38 as claimed: the activity flag of a view is true exactly when a live
\* connection is bound to its conversation
C38_ActiveIffBound ==
  \A i \in 1..Len(activeSessions) :
    activeSessions[i].isActive <=>
      \E s \in connected : socketToSession[s] = activeSessions[i].sessionId

\* C39 as claimed: every step that changes the registry sends the new
\* registry to every connected administrator
C39_ChangeIsBroadcast ==
  [][activeSessions' # activeSessions =>
       \A c \in Sock :
         (c \in adminSockets' /\ c \in connected') =>
           \E i \in 1..Len(emitted') :
             /\ emitted'[i].to = c
             /\ emitted'[i].event = "sessions-list"
             /\ emitted'[i].data = activeSessions']_vars

\* C40 as claimed: an all-sessions-list reports a conversation as active
\* only if its view has the activity flag true
C40_ActiveOnlyIfFlag ==
  \A i \in 1..Len(emitted) :
    emitted[i].event = "all-sessions-list" =>
      \A j \in 1..Len(emitted[i].data) :
        emitted[i].data[j].isActive =>
          /\ HasView(emitted[i].data[j].sessionId)
          /\ ViewOf(emitted[i].data[j].sessionId).isActive

====
